---- MODULE Spec2Model ----
(***************************************************************************)
(* run.py of P-tuning-v2: the main program (task selection, output         *)
(* directory guard, the train / eval / predict section) and evaluate(),    *)
(* the ablation script over the prompt-embedding weight.                   *)
(*                                                                         *)
(* A prompt-embedding row is a tuple: <<origin, k>> is the learned row k   *)
(* of the weights that came from `origin` ("init": the model built by      *)
(* get_trainer, or the name of a loaded checkpoint), ZeroRow is a row of   *)
(* torch.zeros, NoiseRow a row of torch.randn.  The weight is a function   *)
(* from the row indices 0..n-1 to rows.                                    *)
(*                                                                         *)
(* Metric values are integers in units of 1e-4.  A float that is the       *)
(* quotient of two integers is the pair <<numerator, denominator>>.        *)
(***************************************************************************)
EXTENDS Integers, Sequences, FiniteSets, TLC

VARIABLES
    pc,                     \* position in the program
    err,                    \* the exception that stopped the program, or None
    err_at,                 \* the position at which it was raised
    args,                   \* the parsed command line arguments
    output_dir,             \* what training_args.output_dir is on disk
    env,                    \* what the run is given besides these: the seed, the
                            \* model's prompt rows, the trainer's metric keys, torch
    get_trainer,            \* the factory imported at lines 204-222
    seed,                   \* <<s>> once set_seed(s) has run, <<>> before
    trainer,                \* the trainer built at line 229
    last_checkpoint,        \* the main program's last_checkpoint
    looked_up,              \* get_last_checkpoint has been called
    called,                 \* trainer methods called so far
    resume_from_checkpoint, \* evaluate's parameter
    loaded,                 \* checkpoint given to trainer._load_from_checkpoint
    weight,                 \* trainer.model.prefix_encoder.embedding.weight
    prompts,                \* evaluate's local `prompts`
    i,                      \* evaluate's loop variable i
    j,                      \* evaluate's loop variable j
    avg_accuracy,           \* evaluate's local avg_accuracy
    metrics,                \* evaluate's local metrics
    results,                \* evaluate's local results (one row)
    csv,                    \* remove_result.csv
    saved,                  \* names given to trainer.save_metrics
    overwritten,            \* names given to trainer.save_metrics more than once
    log_name,               \* name of the latest trainer.log_metrics call
    save_name,              \* name of the latest trainer.save_metrics call
    last_call,              \* what the latest trainer.evaluate call saw
    acc_seen,               \* per noise column, the eval_accuracy values returned
    weight_assigned         \* evaluate has assigned to the embedding weight

mainVars == <<args, output_dir, env, get_trainer, seed, trainer, last_checkpoint, looked_up>>
tensorVars == <<weight, prompts>>
loopVars == <<i, j, avg_accuracy, results>>
metricVars == <<metrics, saved, overwritten, log_name, save_name, last_call, acc_seen>>
evalVars == <<resume_from_checkpoint, loaded, tensorVars, loopVars, metricVars, csv, weight_assigned>>
vars == <<pc, err, err_at, called, mainVars, evalVars>>

---------------------------------------------------------------------------
(* Bounds of the model *)

\* seeds 0..MaxSeed are given to set_seed
MaxSeed == 1
Seeds == 0..MaxSeed

\* numbers of rows of the prompt embedding (pre_seq_len)
PreSeqLens == {7, 8, 64}

\* values of --task_name and --dataset_name on the command line
TaskNames == {"superglue", "GLUE", "ner", "SRL", "qa", "foo"}
DatasetNames == {"RTE", "conll2003", "conll2005", "squad", "imdb"}

\* What torch does with an indexed write into the embedding weight is decided
\* inside torch, not in run.py.  torch raises RuntimeError when the target is a
\* leaf parameter that requires grad and grad mode is on (the Parameter line 63
\* builds requires grad), and when the value's shape does not fit the rows
\* selected (line 97 gives 7 rows to one row).  "raise" is that outcome.
\* "land" is the statement as written: the value lands on the rows the index
\* selects.  It is kept so that the statements after such a write are examined
\* as well; what holds in both modes holds whichever torch does.
InplaceModes == {"raise", "land"}

\* key sets of the dictionary trainer.evaluate returns
MetricKeySets ==
    { {"eval_loss"},
      {"eval_loss", "eval_accuracy"},
      {"eval_loss", "eval_accuracy", "eval_noise"} }

\* the environments evaluate is examined in
EvalEnvs == [seed : Seeds, n : PreSeqLens, keys : MetricKeySets, inplace : InplaceModes]

\* the environments the whole program is examined in
MainEnvs ==
    { [seed |-> 0, n |-> 64, keys |-> {"eval_loss", "eval_accuracy", "eval_noise"},
       inplace |-> "land"],
      [seed |-> 1, n |-> 8, keys |-> {"eval_loss", "eval_accuracy"},
       inplace |-> "raise"] }

---------------------------------------------------------------------------
(* Program constants *)

None == "None"

PermuteEvalRuns == 100
NoiseEvalRuns == 5
NoiseColumns == 15
FirstIndex == 7
LastStart == 57
LastStop == 64
MiddleStart == 28
MiddleStop == 35

ZeroRow == <<"zero">>
NoiseRow == <<"noise">>
NaN == <<"nan">>

\* the dataset lists of tasks.utils (imported at line 17)
SUPERGLUE_DATASETS == {"boolq", "rte"}
GLUE_DATASETS == {"rte", "sst2"}
NER_DATASETS == {"conll2003"}
SRL_DATASETS == {"conll2005"}
QA_DATASETS == {"squad"}

\* the chain without its last elif
KnownTasksWithoutQa == {"superglue", "glue", "ner", "srl"}

\* the literals the if / elif chain compares the lower-cased task name with
KnownTasks == {"superglue", "glue", "ner", "srl", "qa"}

\* the dataset list the branch of task t asserts membership in
TaskDatasets(t) ==
    CASE t = "superglue" -> SUPERGLUE_DATASETS
      [] t = "glue" -> GLUE_DATASETS
      [] t = "ner" -> NER_DATASETS
      [] t = "srl" -> SRL_DATASETS
      [] t = "qa" -> QA_DATASETS

---------------------------------------------------------------------------
(* Helpers *)

\* str.lower() on the strings the model uses
Lower(s) ==
    CASE s = "GLUE" -> "glue"
      [] s = "SRL" -> "srl"
      [] s = "RTE" -> "rte"
      [] OTHER -> s

\* str(k), as its decimal digits
Str(k) == IF k < 10 THEN <<k>> ELSE <<k \div 10, k % 10>>

\* f"{prefix}{k}"
FString(prefix, k) == <<prefix, Str(k)>>

\* a string literal used as a name
Literal(s) == <<s>>

Size0(w) == Cardinality(DOMAIN w)

NoTensor == [r \in {} |-> ZeroRow]
NoTrainer == [built_by |-> None, keys |-> {}, inplace |-> None]
NoFile == [written |-> FALSE, columns |-> <<>>, row |-> <<>>]
NoCall == [step |-> <<>>, weight |-> NoTensor, targets |-> {}]

\* the prompt embedding of a freshly built or freshly loaded model
Learned(origin, n) == [r \in 0..(n - 1) |-> <<origin, r>>]

\* os.path.isdir, get_last_checkpoint and os.listdir on the output directory
IsDir(d) == d # "missing"
GetLastCheckpoint(d) == IF d = "has_checkpoint" THEN "checkpoint-500" ELSE None
ListDirLen(d) == IF d \in {"has_checkpoint", "other_files"} THEN 1 ELSE 0

Fail(e) ==
    /\ pc' = "error"
    /\ err' = e
    /\ err_at' = pc

Goto(p) ==
    /\ pc' = p
    /\ UNCHANGED <<err, err_at>>

---------------------------------------------------------------------------
(* The main program *)

Init ==
    /\ pc = "select_task"
    /\ err = None
    /\ err_at = None
    /\ args \in [task_name : TaskNames,
                 dataset_name : DatasetNames,
                 do_train : BOOLEAN,
                 do_eval : BOOLEAN,
                 do_predict : BOOLEAN,
                 overwrite_output_dir : BOOLEAN,
                 resume_from_checkpoint : {None, "checkpoint-100"}]
    /\ output_dir \in {"missing", "empty", "has_checkpoint", "other_files"}
    /\ env \in MainEnvs
    /\ get_trainer = None
    /\ seed = <<>>
    /\ trainer = NoTrainer
    /\ last_checkpoint = None
    /\ looked_up = FALSE
    /\ called = {}
    /\ resume_from_checkpoint = None
    /\ loaded = None
    /\ weight = NoTensor
    /\ prompts = NoTensor
    /\ i = 0
    /\ j = 0
    /\ avg_accuracy = <<0, 1>>
    /\ metrics = [k \in {} |-> 0]
    /\ results = <<>>
    /\ csv = NoFile
    /\ saved = {}
    /\ overwritten = {}
    /\ log_name = <<>>
    /\ save_name = <<>>
    /\ last_call = NoCall
    /\ acc_seen = <<>>
    /\ weight_assigned = FALSE

\* lines 204-225
SelectTask ==
    /\ pc = "select_task"
    /\ LET t == Lower(args.task_name) IN
        IF t \in KnownTasks
        THEN IF Lower(args.dataset_name) \in TaskDatasets(t)
             THEN /\ get_trainer' = t
                  /\ Goto("set_seed")
             ELSE /\ Fail("AssertionError")
                  /\ UNCHANGED get_trainer
        ELSE /\ Fail("NotImplementedError")
             /\ UNCHANGED get_trainer
    /\ UNCHANGED <<args, output_dir, env, seed, trainer, last_checkpoint, looked_up,
                   called, evalVars>>

\* line 227
SetSeed ==
    /\ pc = "set_seed"
    /\ seed' = <<env.seed>>
    /\ Goto("get_trainer")
    /\ UNCHANGED <<args, output_dir, env, get_trainer, trainer, last_checkpoint,
                   looked_up, called, evalVars>>

\* the trainer a factory builds in the environment e
BuildTrainer(factory, e) == [built_by |-> factory, keys |-> e.keys, inplace |-> e.inplace]

\* line 229
GetTrainer ==
    /\ pc = "get_trainer"
    /\ trainer' = BuildTrainer(get_trainer, env)
    /\ weight' = Learned("init", env.n)
    /\ Goto("check_output_dir")
    /\ UNCHANGED <<args, output_dir, env, get_trainer, seed, last_checkpoint, looked_up,
                   called, resume_from_checkpoint, loaded, prompts, loopVars,
                   metricVars, csv, weight_assigned>>

\* lines 231-243
CheckOutputDir ==
    /\ pc = "check_output_dir"
    /\ IF IsDir(output_dir) /\ args.do_train /\ ~args.overwrite_output_dir
       THEN /\ last_checkpoint' = GetLastCheckpoint(output_dir)
            /\ looked_up' = TRUE
            /\ IF last_checkpoint' = None /\ ListDirLen(output_dir) > 0
               THEN Fail("ValueError")
               ELSE Goto("run_loops")
       ELSE /\ UNCHANGED <<last_checkpoint, looked_up>>
            /\ Goto("run_loops")
    /\ UNCHANGED <<args, output_dir, env, get_trainer, seed, trainer, called, evalVars>>

\* the checkpoint choice of train(), lines 24-28, applied to evaluate
EvalCheckpointAsTrain ==
    IF args.resume_from_checkpoint # None
    THEN args.resume_from_checkpoint
    ELSE last_checkpoint

\* the checkpoint the main program hands to evaluate (line 250)
EvalCheckpoint == last_checkpoint

\* lines 246-253: the calls of train and predict are commented out
RunLoops ==
    /\ pc = "run_loops"
    /\ IF args.do_eval
       THEN /\ resume_from_checkpoint' = EvalCheckpoint
            /\ Goto("eval_load")
       ELSE /\ UNCHANGED resume_from_checkpoint
            /\ Goto("main_done")
    /\ UNCHANGED <<called, mainVars, loaded, tensorVars, loopVars, metricVars, csv,
                   weight_assigned>>

---------------------------------------------------------------------------
(* The external trainer and torch *)

\* a learned row sitting at its own index
InPlace(w, r) == Len(w[r]) = 2 /\ w[r][2] = r

\* the metrics trainer.evaluate computes from the model's current weights
Accuracy(w) == (Cardinality({r \in DOMAIN w : InPlace(w, r)}) * 10000) \div Size0(w)
NoiseMetric(w) == (Cardinality({r \in DOMAIN w : w[r] = NoiseRow}) * 10000) \div Size0(w)
Loss(w) == 10000 - Accuracy(w)

Metrics(w, keys) ==
    [k \in keys |->
        CASE k = "eval_accuracy" -> Accuracy(w)
          [] k = "eval_noise" -> NoiseMetric(w)
          [] OTHER -> Loss(w)]

\* indices drawn with replacement, as torch.randint would
RandIndices(s, k, n) == [r \in 0..(n - 1) |-> (2 * r + s + k) % n]

\* torch.randperm(n) under seed s, on its k-th call
RandPerm(s, k, n) ==
    LET a == IF (s + k) % 2 = 0 THEN 1 ELSE n - 1
        b == (s * (k + 1)) % n
    IN [r \in 0..(n - 1) |-> (a * r + b) % n]

\* prompts[perm]
Permuted(p, perm) == [r \in DOMAIN p |-> p[perm[r]]]

\* random.sample(range(0, n), count) under seed s, in run (jj, ii)
Sample(s, jj, ii, n, count) ==
    LET start == (s + 3 * jj + 7 * ii) % n
    IN {(start + k) % n : k \in 0..(count - 1)}

\* the rows a slice lo:hi selects in a tensor of n rows
SliceRows(lo, hi, n) == {r \in 0..(n - 1) : lo <= r /\ r < hi}

\* weight[rows, :] = row
SetRows(w, rows, row) == [r \in DOMAIN w |-> IF r \in rows THEN row ELSE w[r]]

---------------------------------------------------------------------------
(* evaluate *)

\* the test of line 43 inverted
ShouldLoadInverted(checkpoint) == checkpoint = None

\* line 43
ShouldLoad(checkpoint) == checkpoint # None

\* lines 43-50
LoadCheckpoint ==
    /\ pc = "eval_load"
    /\ IF ShouldLoad(resume_from_checkpoint)
       THEN /\ loaded' = resume_from_checkpoint
            /\ weight' = Learned(resume_from_checkpoint, Size0(weight))
       ELSE UNCHANGED <<loaded, weight>>
    /\ Goto("eval_first")
    /\ UNCHANGED <<called, mainVars, resume_from_checkpoint, prompts, loopVars,
                   metricVars, csv, weight_assigned>>

\* trainer.evaluate() on weights w for step `step`, then log_metrics(lname, .)
\* and save_metrics(sname, .)
EvaluateLogSave(step, w, targets, lname, sname) ==
    /\ metrics' = Metrics(w, trainer.keys)
    /\ called' = called \cup {"evaluate"}
    /\ last_call' = [step |-> step, weight |-> w, targets |-> targets]
    /\ log_name' = lname
    /\ saved' = saved \cup {sname}
    /\ overwritten' = IF sname \in saved THEN overwritten \cup {sname} ELSE overwritten
    /\ save_name' = sname

\* lines 53-61
EvalUnperturbed ==
    /\ pc = "eval_first"
    /\ EvaluateLogSave(<<"eval">>, weight, {}, Literal("eval"), Literal("eval"))
    /\ avg_accuracy' = <<0, 1>>
    /\ prompts' = weight
    /\ i' = 0
    /\ Goto("permute")
    /\ UNCHANGED <<mainVars, resume_from_checkpoint, loaded, weight, j, results,
                   acc_seen, csv, weight_assigned>>

\* the name line 67 saves permutation run k under
PermuteSaveName(k) == Literal("eval_permute_{i}")

\* lines 62-68, one iteration
PermuteRun ==
    /\ pc = "permute"
    /\ i < PermuteEvalRuns
    /\ LET w == Permuted(prompts, RandPerm(seed[1], i, Size0(prompts))) IN
        /\ weight' = w
        /\ weight_assigned' = TRUE
        /\ EvaluateLogSave(<<"permute", i>>, w, DOMAIN w,
                           FString("eval_permute_", i), PermuteSaveName(i))
    /\ IF "eval_accuracy" \in DOMAIN metrics'
       THEN /\ avg_accuracy' = <<avg_accuracy[1] + metrics'["eval_accuracy"], 1>>
            /\ i' = i + 1
            /\ Goto("permute")
       ELSE /\ Fail("KeyError")
            /\ UNCHANGED <<avg_accuracy, i>>
    /\ UNCHANGED <<mainVars, resume_from_checkpoint, loaded, prompts, j, results,
                   acc_seen, csv>>

\* lines 70-71
PermuteDone ==
    /\ pc = "permute"
    /\ i = PermuteEvalRuns
    /\ avg_accuracy' = <<avg_accuracy[1], avg_accuracy[2] * PermuteEvalRuns>>
    /\ Goto("remove_first")
    /\ UNCHANGED <<called, mainVars, resume_from_checkpoint, loaded, tensorVars,
                   i, j, results, metricVars, csv, weight_assigned>>

\* writes of zeros at lines 97, 106 and 116, each followed by an evaluation
RemoveStep(step, rows, next) ==
    IF trainer.inplace = "raise"
    THEN /\ Fail("RuntimeError")
         /\ UNCHANGED <<called, weight, metricVars, weight_assigned>>
    ELSE /\ LET w == SetRows(weight, rows, ZeroRow) IN
             /\ weight' = w
             /\ weight_assigned' = TRUE
             /\ EvaluateLogSave(<<step>>, w, rows,
                                Literal("eval_remove_first"), Literal("eval_remove_first"))
         /\ UNCHANGED acc_seen
         /\ IF "eval_accuracy" \in DOMAIN metrics'
            THEN Goto(next)
            ELSE Fail("KeyError")

\* the rows the index of line 97 selects
FirstRows == {FirstIndex}

\* lines 97-103
RemoveFirst ==
    /\ pc = "remove_first"
    /\ IF FirstIndex >= Size0(weight)
       THEN /\ Fail("IndexError")
            /\ UNCHANGED <<called, weight, metricVars, weight_assigned>>
       ELSE RemoveStep("remove_first", FirstRows, "remove_last")
    /\ UNCHANGED <<mainVars, resume_from_checkpoint, loaded, prompts, loopVars, csv>>

\* lines 106-113
RemoveLast ==
    /\ pc = "remove_last"
    /\ RemoveStep("remove_last", SliceRows(LastStart, LastStop, Size0(weight)),
                  "remove_middle")
    /\ UNCHANGED <<mainVars, resume_from_checkpoint, loaded, prompts, loopVars, csv>>

\* lines 116-123
RemoveMiddle ==
    /\ pc = "remove_middle"
    /\ RemoveStep("remove_middle", SliceRows(MiddleStart, MiddleStop, Size0(weight)),
                  "noise_init")
    /\ UNCHANGED <<mainVars, resume_from_checkpoint, loaded, prompts, loopVars, csv>>

\* lines 128-131
NoiseInit ==
    /\ pc = "noise_init"
    /\ results' = [c \in 0..(NoiseColumns - 1) |-> NaN]
    /\ acc_seen' = [c \in 0..(NoiseColumns - 1) |-> 0]
    /\ j' = 0
    /\ i' = 0
    /\ Goto("noise")
    /\ UNCHANGED <<called, mainVars, resume_from_checkpoint, loaded, tensorVars,
                   avg_accuracy, metrics, saved, overwritten, log_name,
                   save_name, last_call, csv, weight_assigned>>

\* the metric line 141 adds up
NoiseKey == "eval_noise"

\* lines 132-141, one iteration of the inner loop
NoiseRun ==
    /\ pc = "noise"
    /\ j < NoiseColumns
    /\ i < NoiseEvalRuns
    /\ LET avg0 == IF i = 0 THEN <<0, 1>> ELSE avg_accuracy
           n == Size0(prompts)
           rows == Sample(seed[1], j, i, n, j)
           w == SetRows(weight, rows, NoiseRow)
       IN  IF j > n
           THEN /\ Fail("ValueError")
                /\ avg_accuracy' = avg0
                /\ UNCHANGED <<called, weight, metricVars, weight_assigned, i>>
           ELSE IF rows # {} /\ trainer.inplace = "raise"
           THEN /\ Fail("RuntimeError")
                /\ avg_accuracy' = avg0
                /\ UNCHANGED <<called, weight, metricVars, weight_assigned, i>>
           ELSE /\ weight' = w
                /\ weight_assigned' = (weight_assigned \/ rows # {})
                /\ EvaluateLogSave(<<"noise", j, i>>, w, rows,
                                   FString("eval_noise_", i), Literal("eval_noise_{i}"))
                /\ acc_seen' = IF "eval_accuracy" \in DOMAIN metrics'
                               THEN [acc_seen EXCEPT ![j] = @ + metrics'["eval_accuracy"]]
                               ELSE acc_seen
                /\ IF NoiseKey \in DOMAIN metrics'
                   THEN /\ avg_accuracy' = <<avg0[1] + metrics'[NoiseKey], 1>>
                        /\ i' = i + 1
                        /\ Goto("noise")
                   ELSE /\ Fail("KeyError")
                        /\ avg_accuracy' = avg0
                        /\ UNCHANGED i
    /\ UNCHANGED <<mainVars, resume_from_checkpoint, loaded, prompts, j, results, csv>>

\* lines 143-145
NoiseColumn ==
    /\ pc = "noise"
    /\ j < NoiseColumns
    /\ i = NoiseEvalRuns
    /\ avg_accuracy' = <<avg_accuracy[1], avg_accuracy[2] * NoiseEvalRuns>>
    /\ results' = [results EXCEPT ![j] = avg_accuracy']
    /\ j' = j + 1
    /\ i' = 0
    /\ Goto("noise")
    /\ UNCHANGED <<called, mainVars, resume_from_checkpoint, loaded, tensorVars,
                   metricVars, csv, weight_assigned>>

\* DataFrame.round(decimals=4) on one cell: to the nearest 1e-4, ties to even
Round4(x) ==
    IF x = NaN
    THEN NaN
    ELSE LET q == x[1] \div x[2]
             r == x[1] % x[2]
         IN <<"num", IF 2 * r < x[2] \/ (2 * r = x[2] /\ q % 2 = 0) THEN q ELSE q + 1>>

\* lines 147-149
WriteTable ==
    /\ pc = "noise"
    /\ j = NoiseColumns
    /\ csv' = [written |-> TRUE,
               columns |-> [c \in 0..(NoiseColumns - 1) |-> Str(c)],
               row |-> [c \in 0..(NoiseColumns - 1) |-> Round4(results[c])]]
    /\ Goto("main_done")
    /\ UNCHANGED <<called, mainVars, resume_from_checkpoint, loaded, tensorVars,
                   loopVars, metricVars, weight_assigned>>

evaluate ==
    \/ LoadCheckpoint
    \/ EvalUnperturbed
    \/ PermuteRun
    \/ PermuteDone
    \/ RemoveFirst
    \/ RemoveLast
    \/ RemoveMiddle
    \/ NoiseInit
    \/ NoiseRun
    \/ NoiseColumn
    \/ WriteTable

Next ==
    \/ SelectTask
    \/ SetSeed
    \/ GetTrainer
    \/ CheckOutputDir
    \/ RunLoops
    \/ evaluate

Spec == Init /\ [][Next]_vars

\* evaluate(trainer, last_checkpoint) as the main program enters it at line 250
InitEval ==
    /\ pc = "eval_load"
    /\ err = None
    /\ err_at = None
    /\ args \in [task_name : {"superglue"},
                 dataset_name : {"RTE"},
                 do_train : BOOLEAN,
                 do_eval : {TRUE},
                 do_predict : {FALSE},
                 overwrite_output_dir : {FALSE},
                 resume_from_checkpoint : {None}]
    /\ output_dir \in {"missing", "has_checkpoint"}
    /\ env \in EvalEnvs
    /\ get_trainer = Lower(args.task_name)
    /\ seed = <<env.seed>>
    /\ trainer = BuildTrainer(get_trainer, env)
    /\ looked_up = (IsDir(output_dir) /\ args.do_train)
    /\ last_checkpoint = IF looked_up THEN GetLastCheckpoint(output_dir) ELSE None
    /\ called = {}
    /\ resume_from_checkpoint = last_checkpoint
    /\ loaded = None
    /\ weight = Learned("init", env.n)
    /\ prompts = NoTensor
    /\ i = 0
    /\ j = 0
    /\ avg_accuracy = <<0, 1>>
    /\ metrics = [k \in {} |-> 0]
    /\ results = <<>>
    /\ csv = NoFile
    /\ saved = {}
    /\ overwritten = {}
    /\ log_name = <<>>
    /\ save_name = <<>>
    /\ last_call = NoCall
    /\ acc_seen = <<>>
    /\ weight_assigned = FALSE

SpecEval == InitEval /\ [][evaluate]_vars

---------------------------------------------------------------------------
(* Claims *)

InEvaluate == "evaluate" \in called

\* the condition of line 232
GuardApplies == IsDir(output_dir) /\ args.do_train /\ ~args.overwrite_output_dir

\* the prompt embedding as it was when the ablations started
StartEmbedding ==
    Learned(IF resume_from_checkpoint # None THEN resume_from_checkpoint ELSE "init",
            env.n)

IsRowPermutation(w, p) ==
    /\ DOMAIN w = DOMAIN p
    /\ \A r \in DOMAIN p : Cardinality({q \in DOMAIN w : w[q] = p[r]}) = 1

StepIs(name) == Len(last_call.step) >= 1 /\ last_call.step[1] = name

NothingStarted ==
    /\ seed = <<>>
    /\ trainer.built_by = None
    /\ called = {}

\* C1: a task name that lower-cases to one of superglue, glue, ner, srl, qa,
\* with a dataset name that lower-cases into that task's dataset list, gets its
\* trainer from that task's factory and from no other; any other task name ends
\* in NotImplementedError and a known task with a dataset outside its list in
\* AssertionError, both before the seed is set, before a trainer is built and
\* before any trainer method is called.
C1_TaskSelection ==
    LET t == Lower(args.task_name)
        known == t \in {"superglue", "glue", "ner", "srl", "qa"}
        valid == known /\ Lower(args.dataset_name) \in TaskDatasets(t)
    IN  /\ trainer.built_by # None => (valid /\ trainer.built_by = t)
        /\ (valid /\ pc \notin {"select_task", "set_seed", "get_trainer"})
              => trainer.built_by = t
        /\ ~known => /\ pc \in {"select_task", "error"}
                     /\ NothingStarted
                     /\ pc = "error" => err = "NotImplementedError"
        /\ (known /\ ~valid) => /\ pc \in {"select_task", "error"}
                                /\ NothingStarted
                                /\ pc = "error" => err = "AssertionError"

C1_Witness ==
    /\ args.task_name = "GLUE"
    /\ args.dataset_name = "RTE"
    /\ trainer.built_by = "glue"
    /\ InEvaluate

\* C2: when the main program has finished, trainer.train has been called if
\* do_train is set, the evaluation has run if do_eval is set, trainer.predict
\* has been called if do_predict is set, and no loop has run whose flag is not
\* set.
C2_LoopsFollowFlags ==
    pc = "main_done" =>
        /\ args.do_train <=> "train" \in called
        /\ args.do_eval <=> "evaluate" \in called
        /\ args.do_predict <=> "predict" \in called

\* C3: when every trainer.evaluate call returns eval_accuracy and no
\* eval_noise, evaluate does not stop with an error before the results table
\* is written.
C3_NoErrorBeforeTable ==
    ("eval_accuracy" \in trainer.keys /\ "eval_noise" \notin trainer.keys)
        => pc # "error"

C5_PermutationOfStart ==
    /\ StepIs("permute") => IsRowPermutation(last_call.weight, StartEmbedding)
    /\ pc = "permute" => (prompts = StartEmbedding /\ i <= 100)
    /\ pc = "remove_first" => (prompts = StartEmbedding /\ i = 100)

C5_Witness ==
    /\ StepIs("permute")
    /\ last_call.step[2] = 99
    /\ last_call.weight # StartEmbedding
    /\ pc = "remove_first"

\* C6: for a prompt embedding of at least 7 rows, the remove-first-7 step does
\* not fail, and the weight it evaluates has rows 0 to 6 zero and every other
\* row as it was before the step.
C6_RemoveFirstSeven ==
    LET n == Size0(prompts)
        before == Permuted(prompts, RandPerm(seed[1], 99, n))
    IN  n >= 7 =>
            /\ err_at # "remove_first"
            /\ StepIs("remove_first") =>
                   last_call.weight = [r \in 0..(n - 1) |->
                                          IF r < 7 THEN ZeroRow ELSE before[r]]

C8_Ordering ==
    /\ (resume_from_checkpoint # None /\ InEvaluate) => loaded = resume_from_checkpoint
    /\ resume_from_checkpoint = None => loaded = None
    /\ (pc = "permute" /\ i = 0) =>
          /\ last_call.step = <<"eval">>
          /\ last_call.weight = StartEmbedding
          /\ log_name = <<"eval">>
          /\ save_name = <<"eval">>
          /\ ~weight_assigned
    /\ weight_assigned => <<"eval">> \in saved

C8_Witness ==
    /\ resume_from_checkpoint # None
    /\ loaded = resume_from_checkpoint
    /\ StepIs("permute")
    /\ weight_assigned
    /\ <<"eval">> \in saved

\* C9: every evaluation run saves its metrics under the name it logs them
\* under, and no saved name is written twice.
C9_SavedUnderOwnName ==
    /\ save_name = log_name
    /\ overwritten = {}

\* C10: get_last_checkpoint is called only when output_dir is a directory,
\* do_train is set and overwrite_output_dir is not; then a missing checkpoint
\* in a non-empty directory ends in ValueError before any trainer method is
\* called, and otherwise the checkpoint found (or None) is the one evaluate is
\* given.  In every other case last_checkpoint is None and evaluate loads no
\* checkpoint, whatever args.resume_from_checkpoint is.
C10_CheckpointChoice ==
    LET early == {"select_task", "set_seed", "get_trainer", "check_output_dir"}
        past == IF pc = "error" THEN err_at \notin {"select_task"} ELSE pc \notin early
        found == GetLastCheckpoint(output_dir)
        refused == GuardApplies /\ found = None /\ ListDirLen(output_dir) > 0
    IN  /\ looked_up => GuardApplies
        /\ (past /\ pc # "error" /\ GuardApplies) => looked_up
        /\ err = "ValueError" => (refused /\ called = {})
        /\ (past /\ refused) => (pc = "error" /\ err = "ValueError")
        /\ InEvaluate =>
              /\ resume_from_checkpoint = IF GuardApplies THEN found ELSE None
              /\ loaded = resume_from_checkpoint
        /\ ~GuardApplies => (last_checkpoint = None /\ loaded = None)

C10_Witness ==
    /\ ~GuardApplies
    /\ args.resume_from_checkpoint # None
    /\ InEvaluate
    /\ loaded = None

====
